---- MODULE Spec2Model ----
(***************************************************************************)
(* The sales dashboard of src/app.py (login-gated) and src/app_no_auth.py  *)
(* as a state machine.  One session runs the script from the top on every  *)
(* user interaction: the login gate, then main(): seed the dataset if the  *)
(* session has none, read the sidebar, filter, compute the KPIs, offer two *)
(* editing grids whose snapshots are reconciled into the session's dataset *)
(* (restarting the script on a change), rank the products and export.      *)
(*                                                                         *)
(* A row is a record of the dataset's columns.  The Date column takes no   *)
(* part in filtering, aggregation or reconciliation and is left out of the *)
(* rows.  Prices are whole currency units.  A product name is the tuple of *)
(* its characters, so that the editor's pattern is applied to characters.  *)
(***************************************************************************)
EXTENDS Integers, Sequences, FiniteSets, TLC

VARIABLES
    variant,                \* "auth" (app.py) or "noauth" (app_no_auth.py)
    authentication_status,  \* st.session_state["authentication_status"]
    seeded,                 \* "sales_data" in st.session_state
    sales_data,             \* st.session_state.sales_data, the canonical rows
    show_raw_data,          \* the "Show Raw Data Tab" toggle
    pc,                     \* position of the script run
    event,                  \* the interaction the current run answers
    widget,                 \* the edit a grid holds, made against its data
    reruns,                 \* st.rerun() calls since the last interaction
    screen,                 \* what the completed run shows
    selected_regions, selected_products, status_filter,
    df_filtered,            \* the filtered view with its Revenue column
    kpi,                    \* the four metrics handed to the display
    top5,                   \* the "Top 5 Products by Revenue" table
    csv                     \* the export offered for download

vars == <<variant, authentication_status, seeded, sales_data, show_raw_data,
          pc, event, widget, reruns, screen, selected_regions,
          selected_products, status_filter, df_filtered, kpi, top5, csv>>

----------------------------------------------------------------------------
(* Bounds of the model.                                                    *)

\* Rows the seed generates (100 in the source).
SeedRows == 2
\* Longest dataset an editing grid is taken to.
MaxRows == 3
\* Longest view the product ranking is explored on by itself.
MaxTopRows == 6

\* head(5) of the ranking.
TopN == 5

----------------------------------------------------------------------------
(* Values.                                                                 *)

Laptop  == <<"L", "a", "p", "t", "o", "p">>
Mouse   == <<"M", "o", "u", "s", "e">>
Monitor == <<"M", "o", "n", "i", "t", "o", "r">>
Headset == <<"H", "e", "a", "d", "s", "e", "t">>
Printer == <<"P", "r", "i", "n", "t", "e", "r">>
Webcam  == <<"W", "e", "b", "c", "a", "m">>
\* A name a user can type into a grid that the pattern does not allow.
MouseDollar == <<"M", "o", "u", "$", "e">>

\* The character class [a-zA-Z0-9 ] of the Product column's pattern.
PatternChars ==
    {"a", "b", "c", "d", "e", "f", "g", "h", "i", "j", "k", "l", "m",
     "n", "o", "p", "q", "r", "s", "t", "u", "v", "w", "x", "y", "z",
     "A", "B", "C", "D", "E", "F", "G", "H", "I", "J", "K", "L", "M",
     "N", "O", "P", "Q", "R", "S", "T", "U", "V", "W", "X", "Y", "Z",
     "0", "1", "2", "3", "4", "5", "6", "7", "8", "9", " "}

\* validate="^[a-zA-Z0-9 ]+$"
MatchesPattern(name) ==
    /\ Len(name) >= 1
    /\ \A i \in 1..Len(name) : name[i] \in PatternChars

\* options=["Completed", "Pending", "Cancelled"]
StatusOptions == {"Completed", "Pending", "Cancelled"}

\* st.radio("Order Status", ["All", "Completed", "Pending"])
StatusFilterOptions == {"All", "Completed", "Pending"}

Row(p, r, u, c, s, g) ==
    [Product |-> p, Region |-> r, UnitsSold |-> u, UnitPrice |-> c,
     Status |-> s, Rating |-> g]

\* Rows the seed can generate: a listed product and region, 1 <= units < 50,
\* 20 <= price < 1500, a listed status, 1 <= rating < 6.
SeedPool ==
    {Row(Laptop, "North", 2, 50, "Completed", 5),
     Row(Mouse, "South", 1, 50, "Pending", 3)}

\* Rows a user can bring about in a grid: the seed's, one more that every
\* column constraint allows, and one that each constraint forbids.
EditPool ==
    SeedPool \cup
    {Row(Laptop, "South", 1, 10, "Cancelled", 2),
     Row(MouseDollar, "South", 1, -1, "Bogus", 7)}

RECURSIVE SeqsOfLen(_, _)
\* The sequences of n members of S.
SeqsOfLen(S, n) ==
    IF n = 0 THEN {<<>>}
    ELSE {Append(s, x) : s \in SeqsOfLen(S, n - 1), x \in S}

\* pd.DataFrame(data) of SeedRows generated rows.
SeedTables == SeqsOfLen(SeedPool, SeedRows)

----------------------------------------------------------------------------
(* Session Gate.                                                           *)

\* if status: main() / elif status is False: error / elif None: warning
GateVerdict(status) ==
    IF status = "granted" THEN "main"
    ELSE IF status = "denied" THEN "error"
    ELSE "warning"

\* The script's first statement after configuration.
StartPc(v) == IF v = "auth" THEN "login" ELSE "main"

----------------------------------------------------------------------------
(* Dataset Store.                                                          *)

SeedNeeded_Always(present) == TRUE

\* if "sales_data" not in st.session_state
SeedNeeded(present) == ~present

\* df[column].unique()
Unique(data, column) == {data[i][column] : i \in 1..Len(data)}

----------------------------------------------------------------------------
(* Filter Engine.                                                          *)

WithRevenue(r) ==
    [Product |-> r.Product, Region |-> r.Region, UnitsSold |-> r.UnitsSold,
     UnitPrice |-> r.UnitPrice, Status |-> r.Status, Rating |-> r.Rating,
     Revenue |-> r.UnitsSold * r.UnitPrice]

RECURSIVE AddRevenue(_)
\* df_filtered["Revenue"] = df_filtered["Units Sold"] * df_filtered["Unit Price"]
AddRevenue(data) ==
    IF data = <<>> THEN <<>>
    ELSE <<WithRevenue(Head(data))>> \o AddRevenue(Tail(data))

IsinFilter(data, column, selected) ==
    LET Keep(r) == r[column] \in selected
    IN  SelectSeq(data, Keep)

StatusEquals(data, status) ==
    LET Keep(r) == r.Status = status
    IN  SelectSeq(data, Keep)

ProcessAuth_NoGuard(data, regions, status) ==
    LET byRegion == IsinFilter(data, "Region", regions)
        byStatus == IF status # "All" THEN StatusEquals(byRegion, status)
                    ELSE byRegion
    IN  AddRevenue(byStatus)

\* app.py, DATA PROCESSING
ProcessAuth(data, regions, status) ==
    LET byRegion == IF regions # {} THEN IsinFilter(data, "Region", regions)
                    ELSE data
        byStatus == IF status # "All" THEN StatusEquals(byRegion, status)
                    ELSE byRegion
    IN  AddRevenue(byStatus)

ProcessNoAuth_NoProduct(data, products, regions, status) ==
    LET byRegion == IF regions # {}
                    THEN IsinFilter(data, "Region", regions)
                    ELSE data
        byStatus == IF status # "All" THEN StatusEquals(byRegion, status)
                    ELSE byRegion
    IN  AddRevenue(byStatus)

\* app_no_auth.py, DATA PROCESSING
ProcessNoAuth(data, products, regions, status) ==
    LET byProduct == IF products # {}
                     THEN IsinFilter(data, "Product", products)
                     ELSE data
        byRegion == IF regions # {}
                    THEN IsinFilter(byProduct, "Region", regions)
                    ELSE byProduct
        byStatus == IF status # "All" THEN StatusEquals(byRegion, status)
                    ELSE byRegion
    IN  AddRevenue(byStatus)

Process(v, data, products, regions, status) ==
    IF v = "auth" THEN ProcessAuth(data, regions, status)
    ELSE ProcessNoAuth(data, products, regions, status)

----------------------------------------------------------------------------
(* Aggregation Engine.                                                     *)

RECURSIVE SumColumn(_, _)
\* df[column].sum()
SumColumn(view, column) ==
    IF view = <<>> THEN 0
    ELSE view[1][column] + SumColumn(Tail(view), column)

\* A float that is the quotient num/den, or NaN.
Quotient(n, d) == [nan |-> FALSE, num |-> n, den |-> d]
NaN == [nan |-> TRUE, num |-> 0, den |-> 1]

\* df["Rating"].mean(): the sum over the count, NaN for no rows.
Mean(view, column) ==
    IF Len(view) = 0 THEN NaN
    ELSE Quotient(SumColumn(view, column), Len(view))

CompletionRate_NotCancelled(view) ==
    LET Open(r) == r.Status # "Cancelled"
    IN  IF Len(view) > 0
        THEN Quotient(100 * Len(SelectSeq(view, Open)), Len(view))
        ELSE Quotient(0, 1)

\* (len(df[df['Status'] == 'Completed']) / len(df)) * 100 if len(df) > 0 else 0
CompletionRate(view) ==
    IF Len(view) > 0
    THEN Quotient(100 * Len(StatusEquals(view, "Completed")), Len(view))
    ELSE Quotient(0, 1)

\* f"{x:.1f}": the tenths nearest to x, a tie going to the even tenth, and
\* "nan" for NaN.  The result is the number of tenths.
FormatTenths(x) ==
    IF x.nan THEN [nan |-> TRUE, tenths |-> 0]
    ELSE LET q == (10 * x.num) \div x.den
             r == (10 * x.num) % x.den
             up == \/ 2 * r > x.den
                   \/ 2 * r = x.den /\ q % 2 = 1
         IN  [nan |-> FALSE, tenths |-> IF up THEN q + 1 ELSE q]

\* The KPIs block: the values computed and the texts given to col.metric.
KPIs(view) ==
    LET avg == Mean(view, "Rating")
        rate == CompletionRate(view)
    IN  [total_revenue |-> SumColumn(view, "Revenue"),
         total_units |-> SumColumn(view, "UnitsSold"),
         avg_rating |-> avg,
         completion_rate |-> rate,
         rating_text |-> FormatTenths(avg),
         completion_text |-> FormatTenths(rate)]

\* groupby("Product")["Revenue"].sum(): one sum per product of the view.
GroupSum(view, p) ==
    LET Of(r) == r.Product = p
    IN  SumColumn(SelectSeq(view, Of), "Revenue")

RECURSIVE AscOrders(_, _)
AscOrders(view, products) ==
    IF products = {} THEN {<<>>}
    ELSE LET least == {p \in products :
                         \A q \in products : GroupSum(view, p) <= GroupSum(view, q)}
         IN  UNION {{<<p>> \o rest : rest \in AscOrders(view, products \ {p})} :
                    p \in least}

RECURSIVE DescOrders(_, _)
\* sort_values(ascending=False) with the default sort kind, which is not a
\* stable one: every arrangement with non-increasing sums is an outcome.
DescOrders(view, products) ==
    IF products = {} THEN {<<>>}
    ELSE LET greatest == {p \in products :
                            \A q \in products : GroupSum(view, p) >= GroupSum(view, q)}
         IN  UNION {{<<p>> \o rest : rest \in DescOrders(view, products \ {p})} :
                    p \in greatest}

\* head(n)
Head_(s, n) == SubSeq(s, 1, IF Len(s) < n THEN Len(s) ELSE n)

RECURSIVE Sums(_, _)
\* The (Product, Revenue) lines of the grouped sums, in the given order.
Sums(view, order) ==
    IF order = <<>> THEN <<>>
    ELSE <<[Product |-> Head(order), Revenue |-> GroupSum(view, Head(order))]>>
         \o Sums(view, Tail(order))

\* groupby("Product")["Revenue"].sum().sort_values(ascending=False).head(5):
\* the tables the expression can yield.
TopProductsByRevenue(view) ==
    {Sums(view, Head_(order, TopN)) :
       order \in DescOrders(view, Unique(view, "Product"))}

----------------------------------------------------------------------------
(* Export.                                                                 *)

\* df_filtered.to_csv(index=False): the header line, then one line per row.
CsvHeader ==
    <<"Product", "Region", "Units Sold", "Unit Price", "Status", "Rating",
      "Revenue">>

RECURSIVE CsvLines(_)
CsvLines(view) ==
    IF view = <<>> THEN <<>>
    ELSE LET r == Head(view)
         IN  <<<<r.Product, r.Region, r.UnitsSold, r.UnitPrice, r.Status,
                 r.Rating, r.Revenue>>>> \o CsvLines(Tail(view))

\* df_filtered.to_csv(index=False): the header line, then one line per row.
ToCsv(view) == <<CsvHeader>> \o CsvLines(view)

----------------------------------------------------------------------------
(* Editing grids and the Edit Reconciler.                                  *)

\* The two st.data_editor calls of main().
Surfaces == {"Data Editor", "New Table"}

\* column_config of the "Data Editor" grid: Unit Price min_value=0, Rating
\* min_value=1 max_value=5, Status one of its options, Product its pattern.
ColumnConfigAccepts(r) ==
    /\ r.UnitPrice >= 0
    /\ r.Rating >= 1 /\ r.Rating <= 5
    /\ r.Status \in StatusOptions
    /\ MatchesPattern(r.Product)

\* Rows a grid lets its user bring about: the "New Table" grid is given no
\* column_config.
Accepts(surface, r) ==
    IF surface = "Data Editor" THEN ColumnConfigAccepts(r) ELSE TRUE

RemoveAt(data, i) == SubSeq(data, 1, i - 1) \o SubSeq(data, i + 1, Len(data))

\* One user edit of a grid showing `data` (num_rows="dynamic"): the cells of
\* a row changed, a row added at the end, a row deleted.
Edits(surface, data) ==
    {[op |-> "set", i |-> i, row |-> r] :
        i \in 1..Len(data), r \in {x \in EditPool : Accepts(surface, x)}}
    \cup
    {[op |-> "add", i |-> Len(data) + 1, row |-> r] :
        r \in {x \in EditPool : Accepts(surface, x) /\ Len(data) < MaxRows}}
    \cup
    {[op |-> "del", i |-> i, row |-> data[i]] : i \in 1..Len(data)}

\* The grid's copy of `data` with the edit applied.
ApplyDelta(data, d) ==
    IF d.op = "set"
    THEN IF d.i <= Len(data) THEN [data EXCEPT ![d.i] = d.row] ELSE data
    ELSE IF d.op = "add" THEN Append(data, d.row)
    ELSE IF d.op = "del" /\ d.i <= Len(data) THEN RemoveAt(data, d.i)
    ELSE data

NoEdit ==
    [active |-> FALSE, surface |-> "none", base |-> <<>>,
     delta |-> [op |-> "none", i |-> 0, row |-> Row(<<>>, "", 0, 0, "", 0)]]

DataEditor_Sticky(surface, data, w) ==
    IF w.active /\ w.surface = surface
    THEN ApplyDelta(data, w.delta)
    ELSE data

\* st.data_editor(st.session_state.sales_data, ...): the grid's snapshot.  A
\* grid holds its user's edit for the data it was given; given other data it
\* is a fresh grid and returns that data as it is.
DataEditor(surface, data, w) ==
    IF w.active /\ w.surface = surface /\ w.base = data
    THEN ApplyDelta(data, w.delta)
    ELSE data

Equals_SameLength(a, b) == Len(a) = Len(b)

\* edited_df.equals(st.session_state.sales_data)
Equals(a, b) == a = b

----------------------------------------------------------------------------
(* The state after construction and the steps of a session.                *)

BlankKpi == KPIs(<<>>)

Blank ==
    /\ selected_regions' = {}
    /\ selected_products' = {}
    /\ status_filter' = "All"
    /\ df_filtered' = <<>>
    /\ kpi' = BlankKpi
    /\ top5' = <<>>
    /\ csv' = <<>>

\* A new session: nothing in st.session_state, the script about to run.
Init ==
    /\ variant \in {"auth", "noauth"}
    /\ authentication_status = IF variant = "auth" THEN "pending" ELSE "granted"
    /\ seeded = FALSE
    /\ sales_data = <<>>
    /\ show_raw_data = TRUE
    /\ pc = StartPc(variant)
    /\ event = "none"
    /\ widget = NoEdit
    /\ reruns = 0
    /\ screen = "blank"
    /\ selected_regions = {}
    /\ selected_products = {}
    /\ status_filter = "All"
    /\ df_filtered = <<>>
    /\ kpi = BlankKpi
    /\ top5 = <<>>
    /\ csv = <<>>

\* Any interaction makes the script run again from the top; what the last
\* run showed is replaced by what the new run shows.
NewRun(e) ==
    /\ pc = "idle"
    /\ pc' = StartPc(variant)
    /\ event' = e
    /\ reruns' = 0
    /\ screen' = "blank"
    /\ Blank
    /\ UNCHANGED <<variant, seeded, sales_data>>

\* The login form, shown by a run that found the status not granted, is
\* submitted with right or wrong credentials.
SubmitLogin ==
    /\ variant = "auth"
    /\ authentication_status # "granted"
    /\ screen \in {"error", "warning"}
    /\ \E ok \in BOOLEAN : NewRun(IF ok THEN "login_ok" ELSE "login_bad")
    /\ UNCHANGED <<authentication_status, show_raw_data, widget>>

\* The sidebar's Logout button is clicked.
Logout ==
    /\ variant = "auth"
    /\ authentication_status = "granted"
    /\ screen = "dashboard"
    /\ NewRun("logout")
    /\ widget' = NoEdit
    /\ UNCHANGED <<authentication_status, show_raw_data>>

\* A region, product or status selection or the chart colour is changed.
ChangeFilter ==
    /\ screen = "dashboard"
    /\ NewRun("filter")
    /\ widget' = NoEdit
    /\ UNCHANGED <<authentication_status, show_raw_data>>

\* The "Show Raw Data Tab" toggle is flipped.
Toggle ==
    /\ screen = "dashboard"
    /\ NewRun("toggle")
    /\ show_raw_data' = ~show_raw_data
    /\ widget' = NoEdit
    /\ UNCHANGED authentication_status

\* The export button is clicked.
ClickExport ==
    /\ screen = "dashboard"
    /\ NewRun("export")
    /\ widget' = NoEdit
    /\ UNCHANGED <<authentication_status, show_raw_data>>

\* A cell, a new row or a deletion is committed in one of the two grids.
Edit ==
    /\ screen = "dashboard"
    /\ show_raw_data
    /\ NewRun("edit")
    /\ \E s \in Surfaces : \E d \in Edits(s, sales_data) :
          widget' = [active |-> TRUE, surface |-> s, base |-> sales_data,
                     delta |-> d]
    /\ UNCHANGED <<authentication_status, show_raw_data>>

\* authenticator.login(): a submitted form decides the status, otherwise the
\* session keeps the one it has.
Login ==
    /\ pc = "login"
    /\ authentication_status' =
          IF event = "login_ok" THEN "granted"
          ELSE IF event = "login_bad" THEN "denied"
          ELSE authentication_status
    /\ pc' = "gate"
    /\ UNCHANGED <<variant, seeded, sales_data, show_raw_data, event, widget,
                   reruns, screen, selected_regions, selected_products,
                   status_filter, df_filtered, kpi, top5, csv>>

\* The three branches on st.session_state["authentication_status"].
Gate ==
    /\ pc = "gate"
    /\ LET verdict == GateVerdict(authentication_status)
       IN  IF verdict = "main"
           THEN /\ pc' = "main"
                /\ UNCHANGED <<event, widget, screen>>
           ELSE /\ pc' = "idle"
                /\ screen' = verdict
                /\ event' = "none"
                /\ widget' = NoEdit
    /\ UNCHANGED <<variant, authentication_status, seeded, sales_data,
                   show_raw_data, reruns, selected_regions, selected_products,
                   status_filter, df_filtered, kpi, top5, csv>>

\* main(), SESSION STATE INITIALIZATION.
Seed ==
    /\ pc = "main"
    /\ IF SeedNeeded(seeded)
       THEN /\ sales_data' \in SeedTables
            /\ seeded' = TRUE
       ELSE UNCHANGED <<sales_data, seeded>>
    /\ pc' = "body"
    /\ UNCHANGED <<variant, authentication_status, show_raw_data, event,
                   widget, reruns, screen, selected_regions, selected_products,
                   status_filter, df_filtered, kpi, top5, csv>>

\* st.session_state.sales_data = edited; st.rerun(): the run is abandoned
\* and the script starts again.
Rerun(edited) ==
    /\ sales_data' = edited
    /\ pc' = StartPc(variant)
    /\ reruns' = reruns + 1
    /\ event' = "none"
    /\ screen' = "blank"
    /\ Blank
    /\ UNCHANGED widget

\* The rest of the run once no grid has changed the dataset: what the
\* sidebar returned, the view, the KPIs, the ranking and the export.
Render ==
    \E regions \in SUBSET Unique(sales_data, "Region") :
    \E products \in IF variant = "noauth"
                    THEN SUBSET Unique(sales_data, "Product")
                    ELSE {{}} :
    \E status \in StatusFilterOptions :
       LET view == Process(variant, sales_data, products, regions, status)
       IN  /\ selected_regions' = regions
           /\ selected_products' = products
           /\ status_filter' = status
           /\ df_filtered' = view
           /\ kpi' = KPIs(view)
           /\ top5' \in TopProductsByRevenue(view)
           /\ csv' = IF event = "export" THEN ToCsv(view) ELSE <<>>
           /\ screen' = "dashboard"
           /\ pc' = "idle"
           /\ event' = "none"
           /\ widget' = NoEdit
           /\ UNCHANGED <<sales_data, reruns>>

\* main() from SIDEBAR CONTROLS to the EXPORT SECTION.  The sidebar's first
\* call, authenticator.logout('Logout', 'sidebar'), withdraws the status
\* when its button was clicked, and the run goes on.  The view and the KPIs
\* come before the grids in the script and do not change the session; a
\* changed grid abandons what they rendered.
Body ==
    /\ pc = "body"
    /\ authentication_status' =
          IF variant = "auth" /\ event = "logout" THEN "pending"
          ELSE authentication_status
    /\ LET edited_df == DataEditor("Data Editor", sales_data, widget)
           edited_df_new == DataEditor("New Table", sales_data, widget)
       IN  IF show_raw_data /\ ~Equals(edited_df, sales_data)
           THEN Rerun(edited_df)
           ELSE IF show_raw_data /\ ~Equals(edited_df_new, sales_data)
           THEN Rerun(edited_df_new)
           ELSE Render
    /\ UNCHANGED <<variant, seeded, show_raw_data>>

Interaction ==
    \/ SubmitLogin
    \/ Logout
    \/ ChangeFilter
    \/ Toggle
    \/ ClickExport
    \/ Edit

ScriptStep ==
    \/ Login
    \/ Gate
    \/ Seed
    \/ Body

Next == Interaction \/ ScriptStep

Spec == Init /\ [][Next]_vars

----------------------------------------------------------------------------
(* The product ranking by itself, on views with more products than the     *)
(* ranking keeps.                                                          *)

TopRow(p, c) == WithRevenue(Row(p, "North", 1, c, "Completed", 5))

\* Rows of seven sales of six products; Monitor is sold twice.
TopPool ==
    {TopRow(Laptop, 300), TopRow(Mouse, 300), TopRow(Monitor, 100),
     TopRow(Monitor, 200), TopRow(Headset, 200), TopRow(Printer, 100),
     TopRow(Webcam, 50)}

RECURSIVE Arrangements(_, _)
\* The sequences of at most n different members of S.
Arrangements(S, n) ==
    IF n = 0 THEN {<<>>}
    ELSE {<<>>} \cup
         UNION {{<<x>> \o s : s \in Arrangements(S \ {x}, n - 1)} : x \in S}

RECURSIVE StripRevenue(_)
\* The rows of a view without the derived column.
StripRevenue(view) ==
    IF view = <<>> THEN <<>>
    ELSE LET r == Head(view)
         IN  <<Row(r.Product, r.Region, r.UnitsSold, r.UnitPrice, r.Status,
                   r.Rating)>> \o StripRevenue(Tail(view))

\* A run of app_no_auth.py that has rendered an unfiltered view and reached
\* the Deep Dive tab.
InitTop ==
    /\ variant = "noauth"
    /\ authentication_status = "granted"
    /\ seeded = TRUE
    /\ df_filtered \in Arrangements(TopPool, MaxTopRows)
    /\ sales_data = StripRevenue(df_filtered)
    /\ show_raw_data = FALSE
    /\ pc = "deep"
    /\ event = "none"
    /\ widget = NoEdit
    /\ reruns = 0
    /\ screen = "blank"
    /\ selected_regions = {}
    /\ selected_products = {}
    /\ status_filter = "All"
    /\ kpi = KPIs(df_filtered)
    /\ top5 = <<>>
    /\ csv = <<>>

\* The "Top 5 Products by Revenue" table of the Deep Dive tab.
DeepDive ==
    /\ pc = "deep"
    /\ top5' \in TopProductsByRevenue(df_filtered)
    /\ screen' = "dashboard"
    /\ pc' = "idle"
    /\ UNCHANGED <<variant, authentication_status, seeded, sales_data,
                   show_raw_data, event, widget, reruns, selected_regions,
                   selected_products, status_filter, df_filtered, kpi, csv>>

NextTop == DeepDive

SpecTop == InitTop /\ [][NextTop]_vars

----------------------------------------------------------------------------
(* Properties.                                                             *)

Rendered == screen = "dashboard"

Columns == {"Product", "Region", "UnitsSold", "UnitPrice", "Status", "Rating"}

RECURSIVE IsSubSeq(_, _)
\* a is b with some members left out, the rest in b's order.
IsSubSeq(a, b) ==
    IF a = <<>> THEN TRUE
    ELSE IF b = <<>> THEN FALSE
    ELSE IF Head(a) = Head(b) THEN IsSubSeq(Tail(a), Tail(b))
    ELSE IsSubSeq(a, Tail(b))

StatusPasses(r) == status_filter = "All" \/ r.Status = status_filter

\* C1: with an empty region selection (or, in the no-auth variant, an empty
\* product selection) the filtered view has no rows.
C1_EmptySelectionGivesEmptyView ==
    Rendered =>
       /\ selected_regions = {} => Len(df_filtered) = 0
       /\ variant = "noauth" /\ selected_products = {} => Len(df_filtered) = 0

\* C1, as the code has it: an empty region selection leaves the regions
\* unfiltered and an empty product selection leaves the products unfiltered;
\* the view then holds exactly the rows that pass the other filters.
C1_EmptySelectionIsNoFilter ==
    Rendered =>
       /\ selected_regions = {} =>
            LET Keep(r) ==
                  /\ \/ variant = "auth"
                     \/ selected_products = {}
                     \/ r.Product \in selected_products
                  /\ StatusPasses(r)
            IN  StripRevenue(df_filtered) = SelectSeq(sales_data, Keep)
       /\ variant = "noauth" /\ selected_products = {} =>
            LET Keep(r) ==
                  /\ selected_regions = {} \/ r.Region \in selected_regions
                  /\ StatusPasses(r)
            IN  StripRevenue(df_filtered) = SelectSeq(sales_data, Keep)

C1_Witness ==
    /\ Rendered
    /\ selected_regions = {}
    /\ status_filter = "Completed"
    /\ Len(df_filtered) > 0
    /\ Len(df_filtered) < Len(sales_data)

\* C2: the view's rows are rows of the dataset in the dataset's order, and
\* each has its Region among the selected regions, its Product among the
\* selected products (no-auth variant) and passes the status filter.
C2_ViewRowsMatchSelection ==
    Rendered =>
       /\ IsSubSeq(StripRevenue(df_filtered), sales_data)
       /\ \A i \in 1..Len(df_filtered) :
             /\ df_filtered[i].Region \in selected_regions
             /\ variant = "noauth" =>
                   df_filtered[i].Product \in selected_products
             /\ StatusPasses(df_filtered[i])

\* C2, as the code has it: the view is the dataset's rows, in order, whose
\* Region is among the selected regions when any is selected, whose Product
\* is among the selected products when any is selected (no-auth variant),
\* and which pass the status filter.
C2_ViewIsDatasetWhereSelected ==
    Rendered =>
       LET Keep(r) ==
             /\ selected_regions # {} => r.Region \in selected_regions
             /\ variant = "noauth" /\ selected_products # {} =>
                   r.Product \in selected_products
             /\ StatusPasses(r)
       IN  /\ StripRevenue(df_filtered) = SelectSeq(sales_data, Keep)
           /\ IsSubSeq(StripRevenue(df_filtered), sales_data)
           /\ \A i \in 1..Len(df_filtered) : Keep(df_filtered[i])

C2_Witness ==
    /\ Rendered
    /\ variant = "noauth"
    /\ selected_regions # {}
    /\ selected_products # {}
    /\ selected_products # Unique(sales_data, "Product")
    /\ status_filter # "All"
    /\ Len(df_filtered) > 0
    /\ Len(df_filtered) < Len(sales_data)

FixedMessage(status) == IF status = "denied" THEN "error" ELSE "warning"

Untouched ==
    /\ df_filtered = <<>>
    /\ kpi = BlankKpi
    /\ top5 = <<>>
    /\ csv = <<>>

\* C3: in the authenticated variant main() runs only while the status is
\* granted, and while the status is denied or pending the dataset is not
\* read into any view and only that status's fixed message is shown.
C3_CoreRunsOnlyWhenGranted ==
    /\ pc \in {"main", "body"} => authentication_status = "granted"
    /\ Rendered => authentication_status = "granted"
    /\ variant = "auth" /\ authentication_status # "granted" /\ pc = "idle" =>
          screen = FixedMessage(authentication_status) /\ Untouched

\* C4: with the grids shown, a snapshot equal to the dataset leaves the
\* dataset as it is and starts no new run; a grid's snapshot that differs in
\* a cell or in its row count becomes the dataset and the script starts again
\* at once.
C4_ReconcileReplacesOnDifference ==
    [][pc = "body" /\ show_raw_data =>
          LET first == DataEditor("Data Editor", sales_data, widget)
              second == DataEditor("New Table", sales_data, widget)
              Restarted == /\ pc' = StartPc(variant)
                           /\ reruns' = reruns + 1
          IN  IF first # sales_data
              THEN sales_data' = first /\ Restarted
              ELSE IF second # sales_data
              THEN sales_data' = second /\ Restarted
              ELSE /\ sales_data' = sales_data
                   /\ reruns' = reruns
                   /\ pc' = "idle"]_vars

C4_Witness ==
    /\ reruns = 1
    /\ widget.active
    /\ widget.delta.op = "set"
    /\ sales_data # widget.base
    /\ Len(sales_data) = Len(widget.base)
    /\ sales_data = ApplyDelta(widget.base, widget.delta)

\* C5: once seeded the dataset is never seeded again and never has a Revenue
\* column, and it changes only in a reconciliation whose snapshot differs
\* from it: the runs after a filter change, a toggle, an export request, a
\* logout or a login leave it as it is.
C5_DatasetChangesOnlyByReconciliation ==
    /\ [](seeded => \A i \in 1..Len(sales_data) : DOMAIN sales_data[i] = Columns)
    /\ [][seeded =>
             /\ seeded'
             /\ event \in {"filter", "toggle", "export", "logout",
                           "login_ok", "login_bad"}
                   => sales_data' = sales_data
             /\ sales_data' # sales_data =>
                   /\ pc = "body"
                   /\ show_raw_data
                   /\ widget.active
                   /\ sales_data' = ApplyDelta(sales_data, widget.delta)]_vars

C5_Witness ==
    /\ seeded
    /\ event = "login_ok"
    /\ pc = "body"
    /\ sales_data \notin SeedTables

CountCompleted(view) ==
    Cardinality({i \in 1..Len(view) : view[i].Status = "Completed"})

\* The three rows of the worked example: (Completed, 100), (Pending, 50),
\* (Cancelled, 10).
ExampleData ==
    <<Row(Laptop, "North", 2, 50, "Completed", 5),
      Row(Mouse, "South", 1, 50, "Pending", 3),
      Row(Laptop, "South", 1, 10, "Cancelled", 2)>>

Unfiltered ==
    /\ selected_regions \in {{}, Unique(sales_data, "Region")}
    /\ selected_products \in {{}, Unique(sales_data, "Product")}

\* C6: the completion rate is 100 times the view's Completed rows over its
\* rows, and 0 for a view without rows; it is shown to the nearest tenth.
\* For the rows (Completed, 100), (Pending, 50), (Cancelled, 10) the filter
\* All gives 33.3 and total revenue 160, and the filter Completed gives one
\* row, 100.0 and total revenue 100.
C6_CompletionRate ==
    Rendered =>
       LET n == Len(df_filtered)
           rate == kpi.completion_rate
           text == kpi.completion_text
       IN  /\ ~rate.nan /\ ~text.nan /\ rate.den > 0
           /\ n = 0 => rate.num = 0 /\ text.tenths = 0
           /\ n > 0 => rate.num * n = 100 * CountCompleted(df_filtered) * rate.den
           /\ 2 * (10 * rate.num - text.tenths * rate.den) <= rate.den
           /\ 2 * (text.tenths * rate.den - 10 * rate.num) <= rate.den
           /\ sales_data = ExampleData /\ Unfiltered /\ status_filter = "All" =>
                 /\ text.tenths = 333
                 /\ kpi.total_revenue = 160
           /\ sales_data = ExampleData /\ Unfiltered /\ status_filter = "Completed" =>
                 /\ n = 1
                 /\ text.tenths = 1000
                 /\ kpi.total_revenue = 100

C6_Witness ==
    /\ Rendered
    /\ sales_data = ExampleData
    /\ status_filter = "All"
    /\ Len(df_filtered) = 3
    /\ kpi.completion_text.tenths = 333

\* C7: for a view without rows the average rating handed to the display is a
\* defined "no data" value and never NaN; for a view with rows it is the
\* mean of their ratings.
C7_AverageRatingNeverNaN ==
    Rendered =>
       /\ Len(df_filtered) = 0 =>
             ~kpi.avg_rating.nan /\ ~kpi.rating_text.nan
       /\ Len(df_filtered) > 0 =>
             /\ ~kpi.avg_rating.nan
             /\ kpi.avg_rating.num * Len(df_filtered) =
                   SumColumn(df_filtered, "Rating") * kpi.avg_rating.den

\* C8: whichever grid an edit is made through, every row of the dataset
\* keeps to the column constraints: Unit Price >= 0, Rating in 1..5, Status
\* one of Completed, Pending, Cancelled, Product matching the pattern.
C8_DatasetKeepsColumnConstraints ==
    seeded =>
       \A i \in 1..Len(sales_data) :
          /\ sales_data[i].UnitPrice >= 0
          /\ sales_data[i].Rating \in 1..5
          /\ sales_data[i].Status \in {"Completed", "Pending", "Cancelled"}
          /\ MatchesPattern(sales_data[i].Product)

FirstRow(view, p) ==
    CHOOSE i \in 1..Len(view) :
       /\ view[i].Product = p
       /\ \A j \in 1..(i - 1) : view[j].Product # p

Ranked == pc = "idle" /\ screen = "dashboard"

RevenueOf(view, p) ==
    LET rows == {i \in 1..Len(view) : view[i].Product = p}
        RECURSIVE Total(_)
        Total(S) == IF S = {} THEN 0
                    ELSE LET i == CHOOSE x \in S : TRUE
                         IN  view[i].Revenue + Total(S \ {i})
    IN  Total(rows)

TopIsRanking ==
    LET listed == {top5[i].Product : i \in 1..Len(top5)}
    IN  /\ Len(top5) <= 5
        /\ Cardinality(listed) = Len(top5)
        /\ listed \subseteq Unique(df_filtered, "Product")
        /\ Unique(df_filtered, "Product") # {} => Len(top5) > 0
        /\ \A i \in 1..Len(top5) :
              top5[i].Revenue = RevenueOf(df_filtered, top5[i].Product)
        /\ \A i \in 1..Len(top5) : \A j \in (i + 1)..Len(top5) :
              top5[i].Revenue >= top5[j].Revenue
        /\ \A p \in Unique(df_filtered, "Product") \ listed :
              \A i \in 1..Len(top5) :
                 RevenueOf(df_filtered, p) <= top5[i].Revenue

\* C9: the table lists at most 5 different products with their summed
\* Revenue over the view, largest sum first, no product left out having a
\* larger sum than a listed one, and products with equal sums in the order
\* in which the view first has them.
C9_TopFiveStableTies ==
    Ranked =>
       /\ TopIsRanking
       /\ \A i \in 1..Len(top5) : \A j \in (i + 1)..Len(top5) :
             top5[i].Revenue = top5[j].Revenue =>
                FirstRow(df_filtered, top5[i].Product)
                   < FirstRow(df_filtered, top5[j].Product)

\* C9, as the code has it: the table lists at most 5 different products with
\* their summed Revenue over the view, largest sum first, and no product
\* left out has a larger sum than a listed one; the order of products with
\* equal sums is not settled by where the view first has them.
C9_TopFive ==
    Ranked => TopIsRanking

C9_Witness ==
    /\ Ranked
    /\ Cardinality(Unique(df_filtered, "Product")) > 5
    /\ Len(top5) = 5
    /\ top5[1].Revenue = top5[2].Revenue
    /\ FirstRow(df_filtered, top5[1].Product)
          > FirstRow(df_filtered, top5[2].Product)

\* C10: after one edit the dataset is replaced once, by the grid's snapshot
\* of that edit; the restarted run finds both grids' snapshots equal to the
\* dataset, restarts nothing and completes.  No run restarts more than once
\* without a new interaction, and a run that has not completed can always
\* take its next step.
C10_EditAppliedOnceThenQuiescent ==
    /\ reruns <= 1
    /\ reruns = 1 /\ widget.active =>
          /\ sales_data = ApplyDelta(widget.base, widget.delta)
          /\ sales_data # widget.base
          /\ \A s \in Surfaces : DataEditor(s, sales_data, widget) = sales_data
    /\ reruns = 1 /\ pc = "idle" => ~widget.active
    /\ pc # "idle" => ENABLED ScriptStep

C10_Witness ==
    /\ reruns = 1
    /\ pc = "idle"
    /\ Rendered
    /\ Len(sales_data) = SeedRows + 1

====
